---- MODULE Spec2Model ----
(***************************************************************************)
(* A model of the anime scraper of src/scraper_core.py: the page fetcher   *)
(* with its per-URL cache, and the extraction pipeline (deduplication,     *)
(* categorisation, title cleaning, search ranking, detail extraction).     *)
(*                                                                         *)
(* Python strings are sequences of one-character strings, so that lower(), *)
(* strip(), replace(), split()/join(), slicing and the "in" test are       *)
(* computed and not assumed.                                               *)
(***************************************************************************)
EXTENDS Integers, Sequences, FiniteSets, TLC

VARIABLES
    cache,  \* self.cache: URL -> body of the last successful fetch
    anime_data, \* self.anime_data of the terminal scraper: the results it keeps
    log,    \* history: one entry per get_page call made on the instance
    pc,     \* position of the operation being applied ("idle", "call", "return")
    args,   \* arguments of the operation being applied
    ret     \* its return value

vars == <<cache, anime_data, log, pc, args, ret>>

(***************************************************************************)
(* Python string primitives                                                *)
(***************************************************************************)
UpperChars ==
    <<"A","B","C","D","E","F","G","H","I","J","K","L","M",
      "N","O","P","Q","R","S","T","U","V","W","X","Y","Z">>

LowerChars ==
    <<"a","b","c","d","e","f","g","h","i","j","k","l","m",
      "n","o","p","q","r","s","t","u","v","w","x","y","z">>

\* the lower-case letter of each upper-case letter
LowerOf ==
    [c \in {UpperChars[i] : i \in DOMAIN UpperChars} |->
        LowerChars[CHOOSE i \in DOMAIN UpperChars : UpperChars[i] = c]]

LowerChar(c) == IF c \in DOMAIN LowerOf THEN LowerOf[c] ELSE c

\* str.lower()
Lower(s) == [i \in 1..Len(s) |-> LowerChar(s[i])]

IsSpace(c) == c \in {" ", "\t", "\n"}

\* str.lstrip()
RECURSIVE LStrip(_)
LStrip(s) == IF s # <<>> /\ IsSpace(s[1]) THEN LStrip(Tail(s)) ELSE s

\* str.rstrip()
RECURSIVE RStrip(_)
RStrip(s) ==
    IF s # <<>> /\ IsSpace(s[Len(s)]) THEN RStrip(SubSeq(s, 1, Len(s) - 1)) ELSE s

\* str.strip()
Strip(s) == RStrip(LStrip(s))

\* s[:n]
Take(s, n) == SubSeq(s, 1, IF Len(s) < n THEN Len(s) ELSE n)

\* s.startswith(p)
StartsWith(s, p) == Len(p) <= Len(s) /\ SubSeq(s, 1, Len(p)) = p

\* p in s
Contains(s, p) ==
    \/ p = <<>>
    \/ \E i \in 1..(Len(s) - Len(p) + 1) :
          s[i] = p[1] /\ SubSeq(s, i, i + Len(p) - 1) = p

\* any(p in s for p in ps)
ContainsAny(s, ps) == \E k \in 1..Len(ps) : Contains(s, ps[k])

\* s.replace(p, ''): the occurrences of p, leftmost first and not overlapping
RECURSIVE Remove(_, _)
Remove(s, p) ==
    IF Len(s) < Len(p) \/ Len(p) = 0 THEN s
    ELSE IF SubSeq(s, 1, Len(p)) = p
         THEN Remove(SubSeq(s, Len(p) + 1, Len(s)), p)
         ELSE <<s[1]>> \o Remove(Tail(s), p)

\* ' '.join(s.split())
RECURSIVE JoinSplit(_)
JoinSplit(s) ==
    LET t == Strip(s)
    IN  IF t = <<>> THEN <<>>
        ELSE LET W == {i \in 1..Len(t) : IsSpace(t[i])}
             IN  IF W = {} THEN t
                 ELSE LET k == CHOOSE i \in W : \A j \in W : i <= j
                      IN  SubSeq(t, 1, k - 1) \o <<" ">>
                            \o JoinSplit(SubSeq(t, k + 1, Len(t)))

\* ' '.join(parts)
RECURSIVE Join(_)
Join(parts) ==
    IF parts = <<>> THEN <<>>
    ELSE IF Len(parts) = 1 THEN parts[1]
    ELSE parts[1] \o <<" ">> \o Join(Tail(parts))

\* printable ASCII characters in code-point order (quote, backslash and
\* backquote, which no string of the model holds, left out)
AsciiChars ==
    <<" ","!","#","$","%","&","'","(",")","*","+",",","-",".","/",
      "0","1","2","3","4","5","6","7","8","9",":",";","<","=",">","?",
      "@","A","B","C","D","E","F","G","H","I","J","K","L","M","N","O",
      "P","Q","R","S","T","U","V","W","X","Y","Z","[","]","^","_",
      "a","b","c","d","e","f","g","h","i","j","k","l","m","n","o",
      "p","q","r","s","t","u","v","w","x","y","z","{","|","}","~">>

\* the rank of c in code-point order: Ord(c) < Ord(d) iff ord(c) < ord(d)
Ord(c) == CHOOSE i \in DOMAIN AsciiChars : AsciiChars[i] = c

\* s < t on Python strings: by the first differing character, else by length
StrLess(s, t) ==
    LET n == IF Len(s) < Len(t) THEN Len(s) ELSE Len(t)
        D == {i \in 1..n : s[i] # t[i]}
    IN  IF D = {} THEN Len(s) < Len(t)
        ELSE LET d == CHOOSE i \in D : \A j \in D : i <= j
             IN  Ord(s[d]) < Ord(t[d])

\* n copies of the character c
Rep(c, n) == [i \in 1..n |-> c]

\* the sequences over S of length at most n
SeqUpTo(S, n) == UNION {[1..k -> S] : k \in 0..n}

\* the elements of s at the positions in I, in the order of s
RECURSIVE Pick(_, _)
Pick(s, I) ==
    IF s = <<>> THEN <<>>
    ELSE LET rest == Pick(SubSeq(s, 1, Len(s) - 1), I)
         IN  IF Len(s) \in I THEN Append(rest, s[Len(s)]) ELSE rest

Range(s) == {s[i] : i \in DOMAIN s}

(***************************************************************************)
(* The fetcher                                                             *)
(***************************************************************************)
MaxCalls == 4

Urls == {"https://meownime.ltd", "https://meownime.ltd/anime-list-baru"}

Bodies == {"html1", "html2"}

None == "None"

\* what session.get followed by raise_for_status gives: a body, or None for a
\* RequestException (transport error, timeout, status outside 2xx)
Transport == Bodies \cup {None}

StoreNever(c, url, text) == c

\* self.cache[url] = response.text
Store(c, url, text) ==
    [u \in DOMAIN c \cup {url} |-> IF u = url THEN text ELSE c[u]]

get_page(url, use_cache) ==
    /\ pc = "idle"
    /\ Len(log) < MaxCalls
    /\ IF use_cache /\ url \in DOMAIN cache
       THEN /\ log' = Append(log, [url |-> url, use_cache |-> use_cache,
                                   net |-> FALSE, result |-> cache[url]])
            /\ UNCHANGED cache
       ELSE \E response \in Transport :
              /\ log' = Append(log, [url |-> url, use_cache |-> use_cache,
                                     net |-> TRUE, result |-> response])
              /\ cache' = IF response = None THEN cache
                          ELSE Store(cache, url, response)
    /\ UNCHANGED <<anime_data, pc, args, ret>>

Init ==
    /\ cache = <<>>
    /\ anime_data = <<>>
    /\ log = <<>>
    /\ pc = "idle"
    /\ args = <<>>
    /\ ret = <<>>

Next == \E url \in Urls, use_cache \in BOOLEAN : get_page(url, use_cache)

Spec == Init /\ [][Next]_vars

\* two get_page(url, use_cache=True) calls, the i-th and the j-th of the instance
CachedPair(i, j) ==
    /\ i < j
    /\ log[i].url = log[j].url
    /\ log[i].use_cache /\ log[j].use_cache

\* C1 as stated: two calls get_page(u, use_cache=True) on one instance invoke
\* the transport at most once in total, whatever the transport's outcomes.
C1_AtMostOneTransportCall ==
    \A i, j \in DOMAIN log :
        CachedPair(i, j) => ~(log[i].net /\ log[j].net)

\* C1 amended: of two calls get_page(u, use_cache=True), the later one invokes
\* the transport only if the earlier one invoked it and the fetch failed; when
\* the earlier call returned a body the two calls invoke the transport at most
\* once in total and the later one returns a cached body.
C1_SecondFetchOnlyAfterFailure ==
    \A i, j \in DOMAIN log :
        CachedPair(i, j) =>
            /\ log[j].net => (log[i].net /\ log[i].result = None)
            /\ log[i].result # None => (~log[j].net /\ log[j].result # None)

\* the first call fetched and succeeded, the second was served from the cache
C1_Witness ==
    \E i, j \in DOMAIN log :
        /\ CachedPair(i, j)
        /\ log[i].net /\ log[i].result # None
        /\ ~log[j].net /\ log[j].result = log[i].result

\* the calls of log that asked the transport for url and got a body
Fetched(url) ==
    {i \in DOMAIN log : log[i].url = url /\ log[i].net /\ log[i].result # None}

\* the cache holds the urls fetched with success, each with the body of the
\* latest such fetch
CacheHoldsLatestBodies ==
    /\ DOMAIN cache = {url \in Urls : Fetched(url) # {}}
    /\ \A url \in DOMAIN cache :
          \E i \in Fetched(url) :
              /\ \A j \in Fetched(url) : j <= i
              /\ cache[url] = log[i].result

\* a get_page call, the last of log', keeps the cached urls; with
\* use_cache=False it asks the transport and a body it gets is the cached
\* body afterwards; with use_cache=True on a cached url it returns the cached
\* body without asking the transport and leaves the cache as it is
CallKeepsCache ==
    LET call == log'[Len(log')]
    IN  /\ Len(log') = Len(log) + 1
        /\ DOMAIN cache \subseteq DOMAIN cache'
        /\ ~call.use_cache =>
              /\ call.net
              /\ call.result # None => cache'[call.url] = call.result
        /\ (call.use_cache /\ call.url \in DOMAIN cache) =>
              /\ ~call.net
              /\ call.result = cache[call.url]
              /\ cache' = cache

\* C16: after any sequence of get_page calls the cached urls are the urls of
\* which some fetch succeeded, each with the body of its most recent
\* successful fetch; no call removes a url from the cache; a call with
\* use_cache=False always asks the transport and on success overwrites the
\* cached body; a call with use_cache=True on a cached url returns the cached
\* body and leaves the cache unchanged.
C16_CacheGrowsAndHoldsLatestBodies ==
    []CacheHoldsLatestBodies /\ [][CallKeepsCache]_vars

\* a body is cached, overwritten by a call with use_cache=False and then
\* served from the cache, after a failed call that left the cache as it was
C16_Witness ==
    /\ Len(log) = 4
    /\ \A i \in 1..4 : log[i].url = log[1].url
    /\ log[1].net /\ log[1].result # None
    /\ ~log[2].use_cache /\ log[2].result = None
    /\ ~log[3].use_cache /\ log[3].result \notin {None, log[1].result}
    /\ log[4].use_cache /\ ~log[4].net /\ log[4].result = log[3].result
    /\ cache[log[1].url] = log[3].result

(***************************************************************************)
(* Records: a title and a url                                              *)
(***************************************************************************)
\* "https://meownime.ltd/"
Site == <<"h","t","t","p","s",":","/","/","m","e","o","w","n","i","m","e",".","l","t","d","/">>

\* "-sub-indo/"
SubIndoSlug == <<"-","s","u","b","-","i","n","d","o","/">>

\* the url of an entry page of the site, "https://meownime.ltd/<slug>-sub-indo/"
EntryUrl(slug) == Site \o slug \o SubIndoSlug

Anime(title, url) == [title |-> title, url |-> url]

T_Naruto == <<"N","a","r","u","t","o">>

T_NARUTO == <<"N","A","R","U","T","O">>

T_naruto_padded == <<" ","n","a","r","u","t","o"," ">>

T_Ao == <<"A","o">>

T_Ao_padded == <<"A","o"," ">>

T_Bleach == <<"B","l","e","a","c","h">>

S_naruto == <<"n","a","r","u","t","o">>

S_naruto2 == <<"n","a","r","u","t","o","-","2">>

S_ao == <<"a","o">>

S_bleach == <<"b","l","e","a","c","h">>

(***************************************************************************)
(* remove_duplicates                                                       *)
(***************************************************************************)
MaxRecs == 3

TitleKeyAsWritten(anime) == anime.title

\* title_key = anime['title'].lower().strip()
title_key(anime) == Strip(Lower(anime.title))

\* the loop of remove_duplicates, with its locals seen and unique_anime
RECURSIVE remove_duplicates_loop(_, _, _)
remove_duplicates_loop(anime_list, seen, unique_anime) ==
    IF anime_list = <<>> THEN unique_anime
    ELSE LET anime == Head(anime_list)
             key == title_key(anime)
         IN  IF key \notin seen /\ Len(key) > 2
             THEN remove_duplicates_loop(Tail(anime_list), seen \cup {key},
                                         Append(unique_anime, anime))
             ELSE remove_duplicates_loop(Tail(anime_list), seen, unique_anime)

remove_duplicates(anime_list) == remove_duplicates_loop(anime_list, {}, <<>>)

\* records whose keys collide by case and by surrounding blanks, and keys of
\* length 2 with and without a trailing blank
DedupPool ==
    { Anime(T_Naruto, EntryUrl(S_naruto)),
      Anime(T_NARUTO, EntryUrl(S_naruto2)),
      Anime(T_naruto_padded, EntryUrl(S_naruto)),
      Anime(T_Ao, EntryUrl(S_ao)),
      Anime(T_Ao_padded, EntryUrl(S_ao)),
      Anime(T_Bleach, EntryUrl(S_bleach)) }

InitDedup ==
    /\ cache = <<>>
    /\ anime_data = <<>>
    /\ log = <<>>
    /\ pc = "call"
    /\ args \in [anime_list : SeqUpTo(DedupPool, MaxRecs)]
    /\ ret = None

call_remove_duplicates ==
    /\ pc = "call"
    /\ ret' = remove_duplicates(args.anime_list)
    /\ pc' = "return"
    /\ UNCHANGED <<cache, anime_data, log, args>>

SpecDedup == InitDedup /\ [][call_remove_duplicates]_vars

\* the positions of the input that hold the first occurrence of a key of length > 2
FirstEligible(anime_list) ==
    {i \in DOMAIN anime_list :
        /\ Len(Strip(Lower(anime_list[i].title))) > 2
        /\ \A j \in 1..(i - 1) :
              Strip(Lower(anime_list[j].title)) # Strip(Lower(anime_list[i].title))}

\* C2: the output of remove_duplicates has no two records with equal
\* title.lower().strip(), every output key has length > 2, and the output is the
\* subsequence of the input made of the first occurrence of each eligible key.
C2_DedupFirstOccurrence ==
    pc = "return" =>
        /\ \A i, j \in DOMAIN ret :
              i # j => Strip(Lower(ret[i].title)) # Strip(Lower(ret[j].title))
        /\ \A i \in DOMAIN ret : Len(Strip(Lower(ret[i].title))) > 2
        /\ ret = Pick(args.anime_list, FirstEligible(args.anime_list))

\* a later record was dropped as a duplicate of an earlier one that differs from
\* it in case, and a record whose key has length 2 was dropped
C2_Witness ==
    /\ pc = "return"
    /\ Len(args.anime_list) = 3
    /\ args.anime_list[1].title = T_Naruto
    /\ args.anime_list[2].title = T_NARUTO
    /\ args.anime_list[3].title = T_Ao_padded
    /\ ret = <<args.anime_list[1]>>

(***************************************************************************)
(* categorize_anime                                                        *)
(***************************************************************************)
K_movie == <<"m","o","v","i","e">>

K_film == <<"f","i","l","m">>

\* ['season 2', 'season 3', 'season 4', 's2', 's3', 's4', 'part 2', 'part 3']
SequelKeywords ==
    << <<"s","e","a","s","o","n"," ","2">>, <<"s","e","a","s","o","n"," ","3">>,
       <<"s","e","a","s","o","n"," ","4">>, <<"s","2">>, <<"s","3">>, <<"s","4">>,
       <<"p","a","r","t"," ","2">>, <<"p","a","r","t"," ","3">> >>

\* ['2025', '2024', 'ongoing', 'airing']
RecencyKeywords ==
    << <<"2","0","2","5">>, <<"2","0","2","4">>,
       <<"o","n","g","o","i","n","g">>, <<"a","i","r","i","n","g">> >>

Categories == {"ongoing", "completed", "movies"}

CategoryAlwaysMovies(anime) == "movies"

\* the if / elif chain of the loop body: the bucket the record is appended to
category(anime) ==
    LET title_lower == Lower(anime.title)
        url_lower == Lower(anime.url)
    IN  IF \/ Contains(title_lower, K_movie)
           \/ Contains(url_lower, K_movie)
           \/ Contains(url_lower, K_film)
        THEN "movies"
        ELSE IF ContainsAny(title_lower, SequelKeywords) THEN "ongoing"
        ELSE IF ContainsAny(title_lower, RecencyKeywords) THEN "ongoing"
        ELSE "completed"

\* the loop of categorize_anime over anime_list, appending to data
RECURSIVE categorize_loop(_, _)
categorize_loop(anime_list, data) ==
    IF anime_list = <<>> THEN data
    ELSE LET anime == Head(anime_list)
             c == category(anime)
         IN  categorize_loop(Tail(anime_list),
                             [data EXCEPT ![c] = Append(data[c], anime)])

categorize_anime(anime_list) ==
    categorize_loop(anime_list, [c \in Categories |-> <<>>])

T_NarutoFilm == <<"N","a","r","u","t","o"," ","F","i","l","m">>

T_NarutoMovie2024 == <<"N","a","r","u","t","o"," ","M","o","v","i","e"," ","2","0","2","4">>

T_NarutoMOVIESeason2 == <<"N","a","r","u","t","o"," ","M","O","V","I","E"," ","S","e","a","s","o","n"," ","2">>

T_NarutoSeason2 == <<"N","a","r","u","t","o"," ","S","e","a","s","o","n"," ","2">>

T_Naruto2024 == <<"N","a","r","u","t","o"," ","2","0","2","4">>

S_narutoMovie == <<"n","a","r","u","t","o","-","m","o","v","i","e">>

S_narutoFilm == <<"n","a","r","u","t","o","-","t","h","e","-","f","i","l","m">>

S_bleachFILM == <<"b","l","e","a","c","h","-","F","I","L","M">>

\* a record for each rule, for each place (title, url) and case of a movie
\* keyword, and records that match rule 1 together with rule 2 or rule 3
CategorizePool ==
    { Anime(T_NarutoFilm, EntryUrl(S_naruto)),
      Anime(T_NarutoMovie2024, EntryUrl(S_naruto)),
      Anime(T_NarutoMOVIESeason2, EntryUrl(S_naruto2)),
      Anime(T_NarutoSeason2, EntryUrl(S_naruto2)),
      Anime(T_Naruto2024, EntryUrl(S_naruto)),
      Anime(T_Naruto, EntryUrl(S_narutoMovie)),
      Anime(T_Naruto, EntryUrl(S_narutoFilm)),
      Anime(T_Naruto, EntryUrl(S_naruto)),
      Anime(T_Bleach, EntryUrl(S_bleachFILM)) }

InitCategorize ==
    /\ cache = <<>>
    /\ anime_data = <<>>
    /\ log = <<>>
    /\ pc = "call"
    /\ args \in [anime_list : SeqUpTo(CategorizePool, MaxRecs)]
    /\ ret = None

call_categorize_anime ==
    /\ pc = "call"
    /\ ret' = categorize_anime(args.anime_list)
    /\ pc' = "return"
    /\ UNCHANGED <<cache, anime_data, log, args>>

SpecCategorize == InitCategorize /\ [][call_categorize_anime]_vars

\* the title or the url contains "movie" or "film", whatever the case
HasMovieKeyword(anime) ==
    \E s \in {anime.title, anime.url}, k \in {K_movie, K_film} :
        Contains(Lower(s), k)

\* C3: categorize_anime places each input record in exactly one of the buckets
\* ongoing, completed, movies (the buckets partition the input, each in input
\* order), and the movies bucket holds only records whose title or url contains
\* a movie/film keyword.
C3_BucketsPartitionInput ==
    pc = "return" =>
        /\ DOMAIN ret = Categories
        /\ \E f \in [DOMAIN args.anime_list -> Categories] :
              \A c \in Categories :
                  ret[c] = Pick(args.anime_list,
                                {i \in DOMAIN args.anime_list : f[i] = c})
        /\ \A i \in DOMAIN ret.movies : HasMovieKeyword(ret.movies[i])

\* three records, one landing in each bucket
C3_Witness ==
    /\ pc = "return"
    /\ Len(args.anime_list) = 3
    /\ Len(ret.movies) = 1 /\ Len(ret.ongoing) = 1 /\ Len(ret.completed) = 1
    /\ ret.completed[1].title = T_Naruto

\* C4: categorize_anime assigns every record whose title or url contains
\* "movie" or "film" (case-insensitively) to the movies bucket, also when its
\* title contains a sequel marker or a recency marker.
C4_MovieOrFilmGoesToMovies ==
    pc = "return" =>
        \A i \in DOMAIN args.anime_list :
            HasMovieKeyword(args.anime_list[i]) =>
                \E j \in DOMAIN ret.movies : ret.movies[j] = args.anime_list[i]

\* what the code does hold to: rule 1 as written (movie in the title, movie or
\* film in the url) wins over the sequel and recency rules
C4_RuleOneAsCodedHasPriority ==
    pc = "return" =>
        \A i \in DOMAIN args.anime_list :
            LET a == args.anime_list[i]
            IN  (\/ Contains(Lower(a.title), K_movie)
                 \/ Contains(Lower(a.url), K_movie)
                 \/ Contains(Lower(a.url), K_film))
                => \E j \in DOMAIN ret.movies : ret.movies[j] = a

(***************************************************************************)
(* clean_title                                                             *)
(***************************************************************************)
MaxPieces == 3

\* ['Sub Indo', 'Subtitle Indonesia', 'Episode', 'Batch',
\*  'Download', 'Streaming', 'Watch', 'Online']
unwanted_patterns ==
    << <<"S","u","b"," ","I","n","d","o">>,
       <<"S","u","b","t","i","t","l","e"," ","I","n","d","o","n","e","s","i","a">>,
       <<"E","p","i","s","o","d","e">>,
       <<"B","a","t","c","h">>,
       <<"D","o","w","n","l","o","a","d">>,
       <<"S","t","r","e","a","m","i","n","g">>,
       <<"W","a","t","c","h">>,
       <<"O","n","l","i","n","e">> >>

\* the loop over unwanted_patterns from the k-th pattern on:
\* cleaned = cleaned.replace(pattern, '').replace(pattern.lower(), '')
RECURSIVE remove_patterns(_, _)
remove_patterns(cleaned, k) ==
    IF k > Len(unwanted_patterns) THEN cleaned
    ELSE remove_patterns(
             Remove(Remove(cleaned, unwanted_patterns[k]),
                    Lower(unwanted_patterns[k])),
             k + 1)

clean_title(title) ==
    LET cleaned == JoinSplit(remove_patterns(Strip(title), 1))
    IN  IF Len(cleaned) > 2 THEN cleaned ELSE Strip(title)

P_Ba == <<"B","a">>

P_Batch == <<"B","a","t","c","h">>

P_tchNaruto == <<"t","c","h"," ","N","a","r","u","t","o">>

P_NarutoSub == <<"N","a","r","u","t","o"," ","S","u","b">>

P_blank == <<" ">>

P_Indo == <<" ","I","n","d","o">>

P_batch == <<"b","a","t","c","h">>

P_EPISODE == <<"E","P","I","S","O","D","E">>

P_One == <<"O","n","e">>

\* pieces a title is put together from: boilerplate whole, in halves, in lower
\* and in upper case, blanks, and plain words
TitlePieces ==
    {P_Ba, P_Batch, P_tchNaruto, P_NarutoSub, P_blank, P_Indo, P_batch,
     P_EPISODE, P_One}

RECURSIVE Concat(_)
Concat(pieces) ==
    IF pieces = <<>> THEN <<>> ELSE Head(pieces) \o Concat(Tail(pieces))

CleanTitles == {Concat(ps) : ps \in SeqUpTo(TitlePieces, MaxPieces)}

InitClean ==
    /\ cache = <<>>
    /\ anime_data = <<>>
    /\ log = <<>>
    /\ pc = "call"
    /\ args \in [title : CleanTitles]
    /\ ret = None

call_clean_title ==
    /\ pc = "call"
    /\ ret' = clean_title(args.title)
    /\ pc' = "return"
    /\ UNCHANGED <<cache, anime_data, log, args>>

SpecClean == InitClean /\ [][call_clean_title]_vars

\* C5: clean_title is idempotent: clean_title(clean_title(t)) = clean_title(t)
\* for every title t.
C5_CleanTitleIdempotent ==
    pc = "return" => clean_title(ret) = ret

(***************************************************************************)
(* scrape_anime_list (after the fetch) and search_anime                    *)
(***************************************************************************)
SearchLimit == 25

\* anime_list.sort(key=lambda x: x['title'].lower()); list.sort is stable
RECURSIVE sort_by_title(_)
sort_by_title(anime_list) ==
    IF anime_list = <<>> THEN <<>>
    ELSE LET sorted == sort_by_title(SubSeq(anime_list, 1, Len(anime_list) - 1))
             x == anime_list[Len(anime_list)]
             k == Cardinality({i \in DOMAIN sorted :
                      ~StrLess(Lower(x.title), Lower(sorted[i].title))})
         IN  SubSeq(sorted, 1, k) \o <<x>> \o SubSeq(sorted, k + 1, Len(sorted))

\* scrape_anime_list from the extracted links on: deduplicate, filter by letter
\* when one is given (<<>> stands for None and for ''), sort by lowered title
anime_list_of(anime_links, letter) ==
    LET unique == remove_duplicates(anime_links)
        filtered == IF letter # <<>>
                    THEN SelectSeq(unique,
                             LAMBDA a : StartsWith(Lower(a.title), Lower(letter)))
                    ELSE unique
    IN  sort_by_title(filtered)

RelevanceByLengthOnly(x, y, query_lower) == Len(x.title) <= Len(y.title)

\* key(x) <= key(y) for the key (not title.lower().startswith(query_lower),
\* len(title)): tuples compare by their first differing component, False < True
relevance_leq(x, y, query_lower) ==
    LET nx == ~StartsWith(Lower(x.title), query_lower)
        ny == ~StartsWith(Lower(y.title), query_lower)
    IN  IF nx # ny THEN ny ELSE Len(x.title) <= Len(y.title)

\* results.sort(key=...); list.sort is stable
RECURSIVE sort_by_relevance(_, _)
sort_by_relevance(results, query_lower) ==
    IF results = <<>> THEN <<>>
    ELSE LET sorted == sort_by_relevance(SubSeq(results, 1, Len(results) - 1),
                                         query_lower)
             x == results[Len(results)]
             k == Cardinality({i \in DOMAIN sorted :
                      relevance_leq(sorted[i], x, query_lower)})
         IN  SubSeq(sorted, 1, k) \o <<x>> \o SubSeq(sorted, k + 1, Len(sorted))

SearchAnimeUntrimmed(all_anime, query) ==
    LET query_lower == Lower(query)
    IN  IF query_lower = <<>> THEN <<>>
        ELSE LET results == SelectSeq(all_anime,
                                LAMBDA a : Contains(Lower(a.title), query_lower))
             IN  Take(sort_by_relevance(results, query_lower), SearchLimit)

\* search_anime, given what self.scrape_anime_list() returned
search_anime(all_anime, query) ==
    LET query_lower == Strip(Lower(query))
    IN  IF query_lower = <<>> THEN <<>>
        ELSE LET results == SelectSeq(all_anime,
                                LAMBDA a : Contains(Lower(a.title), query_lower))
             IN  Take(sort_by_relevance(results, query_lower), SearchLimit)

T_NarutoShippuden == <<"N","a","r","u","t","o"," ","S","h","i","p","p","u","d","e","n">>

T_BorutoNarutoNext == <<"B","o","r","u","t","o",":"," ","N","a","r","u","t","o"," ","N","e","x","t">>

T_MyNaruto == <<"M","y"," ","N","a","r","u","t","o">>

S_shippuden == <<"n","a","r","u","t","o","-","s","h","i","p","p","u","d","e","n">>

S_boruto == <<"b","o","r","u","t","o">>

S_my == <<"m","y","-","n","a","r","u","t","o">>

S_filler == <<"n","a">>

SearchPool ==
    { Anime(T_NarutoShippuden, EntryUrl(S_shippuden)),
      Anime(T_BorutoNarutoNext, EntryUrl(S_boruto)),
      Anime(T_Naruto, EntryUrl(S_naruto)),
      Anime(T_MyNaruto, EntryUrl(S_my)),
      Anime(T_Bleach, EntryUrl(S_bleach)) }

\* SearchLimit + 1 further records, titles "Nax", "Naxx", ...: more matches of
\* the query "na" than search_anime returns
Filler ==
    [i \in 1..(SearchLimit + 1) |->
        Anime(<<"N","a">> \o Rep("x", i), EntryUrl(S_filler \o Rep("x", i)))]

Q_naruto == <<"n","a","r","u","t","o">>

Q_Naruto_blank == <<"N","a","r","u","t","o"," ">>

Q_blank == <<" ">>

Q_NA == <<"N","A">>

Q_o == <<"o">>

Q_zz == <<"z","z">>

\* queries: lower case, upper case, with a trailing blank, blank, empty,
\* matching inside titles only, matching nothing
Queries == {Q_naruto, Q_Naruto_blank, Q_blank, Q_NA, Q_o, Q_zz, <<>>}

InitSearch ==
    /\ cache = <<>>
    /\ anime_data = <<>>
    /\ log = <<>>
    /\ pc = "call"
    /\ args \in [query : Queries,
                 anime_links : {l \o f : l \in SeqUpTo(SearchPool, MaxRecs),
                                         f \in {<<>>, Filler}}]
    /\ ret = None

call_search_anime ==
    /\ pc = "call"
    /\ ret' = search_anime(anime_list_of(args.anime_links, <<>>), args.query)
    /\ pc' = "return"
    /\ UNCHANGED <<cache, anime_data, log, args>>

SpecSearch == InitSearch /\ [][call_search_anime]_vars

\* the full anime list of the state: what scrape_anime_list() returns
FullList == anime_list_of(args.anime_links, <<>>)

\* result is what search_anime must return for the search string q over the
\* list all: the records of all whose title contains q, whatever the case, those
\* whose title starts with q first and by non-decreasing title length within
\* both groups (Before is transitive, so it is stated of neighbours), cut to the
\* first SearchLimit
IsRankedMatches(result, all, q) ==
    LET ql == Lower(q)
        Match(a) == Contains(Lower(a.title), ql)
        Starts(a) == StartsWith(Lower(a.title), ql)
        matches == SelectSeq(all, Match)
        Before(a, b) ==
            \/ Starts(a) /\ ~Starts(b)
            \/ Starts(a) = Starts(b) /\ Len(a.title) <= Len(b.title)
    IN  /\ Len(result) = (IF Len(matches) < SearchLimit
                          THEN Len(matches) ELSE SearchLimit)
        /\ \A i \in DOMAIN result : \E m \in DOMAIN matches : result[i] = matches[m]
        /\ \A i, j \in DOMAIN result : i # j => result[i] # result[j]
        /\ \A i, j \in DOMAIN result : j = i + 1 => Before(result[i], result[j])
        /\ \A m \in DOMAIN matches :
              (\A i \in DOMAIN result : result[i] # matches[m]) =>
                  \A i \in DOMAIN result : Before(result[i], matches[m])

RankedMatches(q) == IsRankedMatches(ret, FullList, q)

\* for the query "naruto" over the titles Naruto Shippuden, Boruto: Naruto Next,
\* Naruto the order is Naruto, Naruto Shippuden, Boruto: Naruto Next
IsNarutoExample(result, all) ==
    {all[i].title : i \in DOMAIN all}
            = {T_NarutoShippuden, T_BorutoNarutoNext, T_Naruto}
    => [i \in DOMAIN result |-> result[i].title]
            = <<T_Naruto, T_NarutoShippuden, T_BorutoNarutoNext>>

NarutoExample == args.query = Q_naruto => IsNarutoExample(ret, FullList)

\* C6 as stated: for a non-empty query q, search_anime(q) returns exactly the
\* records of the full list whose title contains q case-insensitively, titles
\* starting with q first, by non-decreasing length within both groups, cut to
\* the first 25; and the "naruto" example.
C6_SearchRanksMatchesOfQuery ==
    (pc = "return" /\ args.query # <<>>) =>
        RankedMatches(args.query) /\ NarutoExample

\* C6 amended: the search string is the query trimmed (q.strip()): for a query
\* q whose trimmed form is non-empty, search_anime(q) returns exactly the
\* records of the full list whose title contains q.strip() case-insensitively,
\* titles starting with q.strip() first, by non-decreasing length within both
\* groups, cut to the first 25; and the "naruto" example.
C6_SearchRanksMatchesOfTrimmedQuery ==
    (pc = "return" /\ Strip(args.query) # <<>>) =>
        RankedMatches(Strip(args.query)) /\ NarutoExample

\* an upper-case query over a list with more than 25 matches, one of them not
\* starting with the query: the result is cut to 25
C6_Witness ==
    /\ pc = "return"
    /\ args.query = Q_NA
    /\ Len(ret) = SearchLimit
    /\ Len(args.anime_links) = SearchLimit + 3
    /\ args.anime_links[1].title = T_MyNaruto
    /\ args.anime_links[2].title = T_Naruto

\* the example of the claim, reached
C6_WitnessNaruto ==
    /\ pc = "return"
    /\ args.query = Q_naruto
    /\ [i \in DOMAIN ret |-> ret[i].title]
            = <<T_Naruto, T_NarutoShippuden, T_BorutoNarutoNext>>

(***************************************************************************)
(* extract_synopsis                                                        *)
(*                                                                         *)
(* The parsed page is the sequence of its <p> elements in document order,  *)
(* each with the classes of the elements it lies in and its text.          *)
(***************************************************************************)
MaxParas == 5

MaxLongParas == 3

SynopsisParas == 3

SynopsisMinLen == 30

SynopsisLimit == 500

\* ['.entry-content p', '.post-content p', '.content p', 'p']
synopsis_selectors ==
    <<".entry-content p", ".post-content p", ".content p", "p">>

\* the class the descendant selector asks of an ancestor
AncestorClass ==
    [sel \in {".entry-content p", ".post-content p", ".content p"} |->
        CASE sel = ".entry-content p" -> "entry-content"
          [] sel = ".post-content p" -> "post-content"
          [] sel = ".content p" -> "content"]

\* soup.select(selector), elements in document order
select(soup, selector) ==
    IF selector = "p" THEN soup
    ELSE SelectSeq(soup, LAMBDA p : AncestorClass[selector] \in p.classes)

\* p.get_text(strip=True) of a paragraph that holds one text node
get_text(p) == Strip(p.text)

\* ['download', 'link', 'episode']
synopsis_stop_words ==
    << <<"d","o","w","n","l","o","a","d">>, <<"l","i","n","k">>,
       <<"e","p","i","s","o","d","e">> >>

KeepsTextOver20(text) ==
    Len(text) > 20 /\ ~ContainsAny(Lower(text), synopsis_stop_words)

\* len(text) > 30 and not any(word in text.lower() for word in [...])
keeps_text(text) ==
    Len(text) > SynopsisMinLen /\ ~ContainsAny(Lower(text), synopsis_stop_words)

\* for p in elements[:3]: the texts appended to synopsis_parts
RECURSIVE kept_texts(_)
kept_texts(elements) ==
    IF elements = <<>> THEN <<>>
    ELSE LET text == get_text(Head(elements))
         IN  (IF keeps_text(text) THEN <<text>> ELSE <<>>)
                \o kept_texts(Tail(elements))

\* the loop over synopsis_selectors from the k-th selector on
RECURSIVE synopsis_loop(_, _, _)
synopsis_loop(soup, k, synopsis_parts) ==
    IF k > Len(synopsis_selectors) THEN synopsis_parts
    ELSE LET elements == select(soup, synopsis_selectors[k])
         IN  IF elements = <<>>
             THEN synopsis_loop(soup, k + 1, synopsis_parts)
             ELSE LET parts == synopsis_parts
                                 \o kept_texts(Take(elements, SynopsisParas))
                  IN  IF parts # <<>> THEN parts
                      ELSE synopsis_loop(soup, k + 1, parts)

TruncateNever(synopsis) == synopsis

\* synopsis[:500] + "..." if len(synopsis) > 500 else synopsis
truncate(synopsis) ==
    IF Len(synopsis) > SynopsisLimit
    THEN Take(synopsis, SynopsisLimit) \o <<".", ".", ".">>
    ELSE synopsis

extract_synopsis(soup) == truncate(Join(synopsis_loop(soup, 1, <<>>)))

Digits == <<"1","2","3","4","5","6","7","8","9">>

\* the text of the i-th paragraph of a page, made of the digit i so that the
\* paragraphs of a synopsis can be told apart: just over and just at the
\* minimum length, with a stop word, blank-padded, and long
ParaText(kind, i) ==
    CASE kind = "good" -> Rep(Digits[i], SynopsisMinLen + 1)
      [] kind = "short" -> Rep(Digits[i], SynopsisMinLen)
      [] kind = "stopword" ->
            <<"N","e","x","t"," ","E","p","i","s","o","d","e"," ">>
                \o Rep(Digits[i], SynopsisMinLen)
      [] kind = "padded" -> <<" ">> \o Rep(Digits[i], SynopsisMinLen) \o <<"\n">>
      [] kind = "long249" -> Rep(Digits[i], 249)
      [] kind = "long250" -> Rep(Digits[i], 250)

\* the page whose i-th paragraph is of kind kinds[i] and lies in elements of
\* the classes classes[i]
Page(kinds, classes) ==
    [i \in DOMAIN kinds |-> [classes |-> classes[i], text |-> ParaText(kinds[i], i)]]

\* args.soup is a page of at most n paragraphs with kinds in K and classes in C
SoupIsPage(n, K, C) ==
    \E m \in 0..n : \E kinds \in [1..m -> K], classes \in [1..m -> C] :
        args = [soup |-> Page(kinds, classes)]

InitSynopsis ==
    /\ cache = <<>>
    /\ anime_data = <<>>
    /\ log = <<>>
    /\ pc = "call"
    /\ SoupIsPage(MaxParas, {"good", "short", "stopword"}, {{}, {"entry-content"}})
    /\ ret = None

\* pages of few paragraphs, some of them long
InitSynopsisLong ==
    /\ cache = <<>>
    /\ anime_data = <<>>
    /\ log = <<>>
    /\ pc = "call"
    /\ SoupIsPage(MaxLongParas, {"good", "padded", "long249", "long250"},
                  {{}, {"post-content"}, {"content", "post"}})
    /\ ret = None

call_extract_synopsis ==
    /\ pc = "call"
    /\ ret' = extract_synopsis(args.soup)
    /\ pc' = "return"
    /\ UNCHANGED <<cache, anime_data, log, args>>

SpecSynopsis == InitSynopsis /\ [][call_extract_synopsis]_vars

SpecSynopsisLong == InitSynopsisLong /\ [][call_extract_synopsis]_vars

\* a qualifying paragraph: text longer than 30 with none of download, link, episode
Qualifies(p) ==
    /\ Len(Strip(p.text)) > 30
    /\ ~\E w \in {<<"d","o","w","n","l","o","a","d">>, <<"l","i","n","k">>,
                  <<"e","p","i","s","o","d","e">>} : Contains(Lower(Strip(p.text)), w)

Texts(elements) == [i \in DOMAIN elements |-> Strip(elements[i].text)]

Ellipsis(s) == IF Len(s) > 500 THEN SubSeq(s, 1, 500) \o <<".", ".", ".">> ELSE s

\* the synopsis made of the qualifying paragraphs among Window(elements), for
\* the first selector for which there is one; empty when there is none
SynopsisFrom(soup, Window(_)) ==
    LET Good(k) == SelectSeq(Window(select(soup, synopsis_selectors[k])), Qualifies)
        S == {k \in DOMAIN synopsis_selectors : Good(k) # <<>>}
    IN  IF S = {} THEN <<>>
        ELSE Ellipsis(Join(Texts(Good(CHOOSE k \in S : \A j \in S : k <= j))))

FirstThree(elements) == SubSeq(elements, 1, IF Len(elements) < 3 THEN Len(elements) ELSE 3)

FirstThreeQualifying(elements) == FirstThree(SelectSeq(elements, Qualifies))

\* a page of 5 paragraphs that every selector with a match matches all of,
\* where only paragraphs 1, 3 and 4 qualify
FiveParagraphs134 ==
    /\ Len(args.soup) = 5
    /\ \A i \in 1..5 : args.soup[i].classes = args.soup[1].classes
    /\ {i \in 1..5 : Qualifies(args.soup[i])} = {1, 3, 4}

\* C7 as stated: extract_synopsis uses, from the first selector that yields a
\* qualifying paragraph, up to the first 3 qualifying paragraphs in document
\* order; with 5 paragraphs of which only 1, 3 and 4 qualify the synopsis is
\* paragraphs 1, 3 and 4 joined by single spaces.
C7_FirstThreeQualifyingParagraphs ==
    pc = "return" =>
        /\ ret = SynopsisFrom(args.soup, FirstThreeQualifying)
        /\ FiveParagraphs134 =>
              ret = Join(<<Strip(args.soup[1].text), Strip(args.soup[3].text),
                           Strip(args.soup[4].text)>>)

\* C7 amended: extract_synopsis uses, from the first selector among whose first
\* 3 paragraphs one qualifies, the qualifying paragraphs among those first 3
\* in document order; with 5 paragraphs of which only 1, 3 and 4 qualify the
\* synopsis is paragraphs 1 and 3 joined by a single space.
C7_QualifyingAmongFirstThreeParagraphs ==
    pc = "return" =>
        /\ ret = SynopsisFrom(args.soup, FirstThree)
        /\ FiveParagraphs134 =>
              ret = Join(<<Strip(args.soup[1].text), Strip(args.soup[3].text)>>)

\* the page of the example, its synopsis made
C7_Witness ==
    /\ pc = "return"
    /\ FiveParagraphs134
    /\ Len(ret) = 63

\* the selector .entry-content p matched paragraphs of which none of the first
\* 3 qualified, and the synopsis came from the selector p
C7_WitnessFallback ==
    /\ pc = "return"
    /\ Len(args.soup) = 5
    /\ \A i \in 2..5 : args.soup[i].classes = {"entry-content"} /\ ~Qualifies(args.soup[i])
    /\ args.soup[1].classes = {} /\ Qualifies(args.soup[1])
    /\ ret = Strip(args.soup[1].text)

\* C8 as stated: the synopsis returned by extract_synopsis has length at most
\* 500, ellipsis included.
C8_SynopsisAtMost500 ==
    pc = "return" => Len(ret) <= 500

\* C8 amended: the synopsis returned by extract_synopsis has length at most 503:
\* a join of more than 500 characters is cut to its first 500 characters and
\* "..." is appended to those, and a join of at most 500 is returned whole.
C8_SynopsisAtMost503 ==
    pc = "return" =>
        LET joined == Join(synopsis_loop(args.soup, 1, <<>>))
        IN  /\ Len(ret) <= 503
            /\ Len(joined) <= 500 => ret = joined
            /\ Len(joined) > 500 =>
                  ret = SubSeq(joined, 1, 500) \o <<".", ".", ".">>

\* a join of 501 characters, returned as 503
C8_Witness ==
    /\ pc = "return"
    /\ Len(Join(synopsis_loop(args.soup, 1, <<>>))) = 501
    /\ Len(ret) = 503

\* a join of exactly 500 characters, returned whole
C8_WitnessWhole ==
    /\ pc = "return"
    /\ Len(ret) = 500

(***************************************************************************)
(* extract_download_links and determine_link_type                          *)
(*                                                                         *)
(* The parsed page is the sequence of its <a href> elements in document    *)
(* order, each with its href and its text.                                 *)
(***************************************************************************)
MaxAnchors == 3

DownloadLimit == 10

LinkTextLimit == 100

\* ['drive.google.com', 'mega.nz', 'mediafire.com',
\*  'zippyshare.com', 'solidfiles.com', 'uptobox.com']
download_domains ==
    << <<"d","r","i","v","e",".","g","o","o","g","l","e",".","c","o","m">>,
       <<"m","e","g","a",".","n","z">>,
       <<"m","e","d","i","a","f","i","r","e",".","c","o","m">>,
       <<"z","i","p","p","y","s","h","a","r","e",".","c","o","m">>,
       <<"s","o","l","i","d","f","i","l","e","s",".","c","o","m">>,
       <<"u","p","t","o","b","o","x",".","c","o","m">> >>

\* the types returned for the domains, in the order of the if / elif chain
link_types ==
    <<"Google Drive", "MEGA", "MediaFire", "ZippyShare", "SolidFiles", "Uptobox">>

DetermineLinkTypeLastDomain(url) ==
    LET url_lower == Lower(url)
        D == {k \in DOMAIN download_domains : Contains(url_lower, download_domains[k])}
    IN  IF D = {} THEN "Other"
        ELSE link_types[CHOOSE k \in D : \A j \in D : j <= k]

\* determine_link_type: the type of the first domain, in the order of the
\* chain, that url.lower() contains; 'Other' when it contains none
determine_link_type(url) ==
    LET url_lower == Lower(url)
        D == {k \in DOMAIN download_domains : Contains(url_lower, download_domains[k])}
    IN  IF D = {} THEN "Other"
        ELSE link_types[CHOOSE k \in D : \A j \in D : k <= j]

\* the first loop: one dictionary for each anchor whose href contains a domain
RECURSIVE download_links_of(_)
download_links_of(links) ==
    IF links = <<>> THEN <<>>
    ELSE LET link == Head(links)
             href == link.href
             text == Strip(link.text)
         IN  (IF ContainsAny(href, download_domains)
              THEN <<[text |-> Take(text, LinkTextLimit), url |-> href,
                      type |-> determine_link_type(href)]>>
              ELSE <<>>)
                \o download_links_of(Tail(links))

UniqueLinksKeepAll(download_links, seen_urls, unique_links) == download_links

\* the second loop, with its locals seen_urls and unique_links
RECURSIVE unique_links_loop(_, _, _)
unique_links_loop(download_links, seen_urls, unique_links) ==
    IF download_links = <<>> THEN unique_links
    ELSE LET link == Head(download_links)
         IN  IF link.url \notin seen_urls
             THEN unique_links_loop(Tail(download_links), seen_urls \cup {link.url},
                                    Append(unique_links, link))
             ELSE unique_links_loop(Tail(download_links), seen_urls, unique_links)

extract_download_links(soup) ==
    Take(unique_links_loop(download_links_of(soup), {}, <<>>), DownloadLimit)

H_drive == <<"h","t","t","p","s",":","/","/","d","r","i","v","e",".","g","o","o","g","l","e",".","c","o","m","/","f","i","l","e","/","1">>

H_mega == <<"h","t","t","p","s",":","/","/","m","e","g","a",".","n","z","/","f","i","l","e","/","1">>

H_MEGA == <<"h","t","t","p","s",":","/","/","M","E","G","A",".","N","Z","/","f","i","l","e","/","1">>

H_site == <<"h","t","t","p","s",":","/","/","m","e","o","w","n","i","m","e",".","l","t","d","/","f","a","q">>

H_two == <<"h","t","t","p","s",":","/","/","u","p","t","o","b","o","x",".","c","o","m","/","?","r","=","m","e","d","i","a","f","i","r","e",".","c","o","m">>

H_solid == <<"h","t","t","p",":","/","/","s","o","l","i","d","f","i","l","e","s",".","c","o","m","/","v","/","1">>

H_filler == <<"h","t","t","p","s",":","/","/","m","e","g","a",".","n","z","/","f","/">>

X_Download == <<"D","o","w","n","l","o","a","d">>

X_Mirror == <<" ","M","i","r","r","o","r"," ","2"," ">>

X_Long == Rep("y", LinkTextLimit + 1)

Anchor(href, text) == [href |-> href, text |-> text]

\* anchors of each sort: an allowlisted domain, the same href under another
\* text, a domain in upper case, the site itself, two domains in one href, a
\* text of more than 100 characters, an empty text
AnchorPool ==
    { Anchor(H_drive, X_Download),
      Anchor(H_mega, X_Mirror),
      Anchor(H_mega, X_Download),
      Anchor(H_MEGA, X_Download),
      Anchor(H_site, X_Download),
      Anchor(H_two, X_Long),
      Anchor(H_solid, <<>>) }

\* DownloadLimit + 1 further anchors with pairwise different mega.nz hrefs
FillerAnchors ==
    [i \in 1..(DownloadLimit + 1) |-> Anchor(H_filler \o Rep("x", i), X_Download)]

InitLinks ==
    /\ cache = <<>>
    /\ anime_data = <<>>
    /\ log = <<>>
    /\ pc = "call"
    /\ \E l \in SeqUpTo(AnchorPool, MaxAnchors), f \in {<<>>, FillerAnchors} :
          args = [soup |-> l \o f]
    /\ ret = None

call_extract_download_links ==
    /\ pc = "call"
    /\ ret' = extract_download_links(args.soup)
    /\ pc' = "return"
    /\ UNCHANGED <<cache, anime_data, log, args>>

SpecLinks == InitLinks /\ [][call_extract_download_links]_vars

\* the href contains one of the six allowlisted domains
Allowlisted(href) ==
    \E d \in { <<"d","r","i","v","e",".","g","o","o","g","l","e",".","c","o","m">>,
               <<"m","e","g","a",".","n","z">>,
               <<"m","e","d","i","a","f","i","r","e",".","c","o","m">>,
               <<"z","i","p","p","y","s","h","a","r","e",".","c","o","m">>,
               <<"s","o","l","i","d","f","i","l","e","s",".","c","o","m">>,
               <<"u","p","t","o","b","o","x",".","c","o","m">> } :
        Contains(href, d)

\* the positions of the anchors that are the first with their href among the
\* anchors with an allowlisted href
FirstAllowlisted(soup) ==
    {i \in DOMAIN soup :
        /\ Allowlisted(soup[i].href)
        /\ \A j \in 1..(i - 1) : soup[j].href # soup[i].href}

\* C9: extract_download_links returns, in document order of first occurrence,
\* the anchors whose href contains one of the six allowlisted domains, with no
\* two results sharing a url and at most 10 results; on a page with no such
\* anchor the result is the empty list.
C9_AllowlistedLinksDedupedCapped ==
    pc = "return" =>
        LET expected == Pick(args.soup, FirstAllowlisted(args.soup))
        IN  /\ Len(ret) = (IF Len(expected) < 10 THEN Len(expected) ELSE 10)
            /\ \A i \in DOMAIN ret :
                  /\ ret[i].url = expected[i].href
                  /\ ret[i].text = SubSeq(Strip(expected[i].text), 1,
                        IF Len(Strip(expected[i].text)) < 100
                        THEN Len(Strip(expected[i].text)) ELSE 100)
            /\ \A i, j \in DOMAIN ret : i # j => ret[i].url # ret[j].url
            /\ Len(ret) <= 10
            /\ (\A i \in DOMAIN args.soup : ~Allowlisted(args.soup[i].href))
                  => ret = <<>>

\* a page with a repeated href and more than 10 different allowlisted hrefs:
\* the repetition is dropped and the result is cut to 10
C9_Witness ==
    /\ pc = "return"
    /\ Len(args.soup) = DownloadLimit + 4
    /\ args.soup[1] = Anchor(H_mega, X_Mirror)
    /\ args.soup[2] = Anchor(H_site, X_Download)
    /\ args.soup[3] = Anchor(H_mega, X_Download)
    /\ Len(ret) = 10
    /\ ret[1].text = <<"M","i","r","r","o","r"," ","2">>
    /\ ret[2].url = H_filler \o <<"x">>

\* a page with anchors, none of them to an allowlisted domain: the empty list
C9_WitnessEmpty ==
    /\ pc = "return"
    /\ Len(args.soup) = 2
    /\ args.soup[1].href = H_MEGA
    /\ args.soup[2].href = H_site
    /\ ret = <<>>

\* the provider of the k-th domain of the chain drive.google.com, mega.nz,
\* mediafire.com, zippyshare.com, solidfiles.com, uptobox.com
ProviderOfDomain(k) ==
    CASE k = 1 -> "Google Drive"
      [] k = 2 -> "MEGA"
      [] k = 3 -> "MediaFire"
      [] k = 4 -> "ZippyShare"
      [] k = 5 -> "SolidFiles"
      [] k = 6 -> "Uptobox"

\* C18: the type of every link extract_download_links returns is the provider
\* of the first domain, in the order of the chain, that the lowercased url
\* contains; no returned link has the type Other, and no text is longer than
\* 100 characters.
C18_TypeOfFirstDomainNeverOther ==
    pc = "return" =>
        \A i \in DOMAIN ret :
            LET url_lower == Lower(ret[i].url)
            IN  /\ \E k \in 1..6 :
                      /\ Contains(url_lower, download_domains[k])
                      /\ \A j \in 1..(k - 1) : ~Contains(url_lower, download_domains[j])
                      /\ ret[i].type = ProviderOfDomain(k)
                /\ ret[i].type # "Other"
                /\ Len(ret[i].text) <= 100

\* a link whose url holds uptobox.com before mediafire.com and whose anchor
\* text has 101 characters: the type is MediaFire, the text has 100
C18_Witness ==
    /\ pc = "return"
    /\ args.soup = <<Anchor(H_two, X_Long), Anchor(H_solid, <<>>)>>
    /\ Len(ret) = 2
    /\ ret[1].type = "MediaFire"
    /\ Len(ret[1].text) = 100
    /\ ret[2].type = "SolidFiles"

(***************************************************************************)
(* scrape_anime_details: the title                                         *)
(*                                                                         *)
(* The parsed page is the sequence of its elements in document order, each *)
(* with its tag name, its classes and its text.                            *)
(***************************************************************************)
MaxElems == 3

\* ['h1', '.entry-title', '.post-title', 'title']
title_selectors == <<"h1", ".entry-title", ".post-title", "title">>

\* "Unknown Title"
UnknownTitle == <<"U","n","k","n","o","w","n"," ","T","i","t","l","e">>

\* soup.find(name): the positions of the elements whose tag name is the string
\* given (find matches tag names; it does not read a string as a CSS selector)
found(soup, name) == {i \in DOMAIN soup : soup[i].name = name}

\* the title of scrape_anime_details: the loop over title_selectors from the
\* k-th selector on; a Tag is true whatever its contents
RECURSIVE detail_title(_, _)
detail_title(soup, k) ==
    IF k > Len(title_selectors) THEN UnknownTitle
    ELSE LET F == found(soup, title_selectors[k])
         IN  IF F # {}
             THEN LET title_element == soup[CHOOSE i \in F : \A j \in F : i <= j]
                  IN  clean_title(Strip(title_element.text))
             ELSE detail_title(soup, k + 1)

X_NarutoSubIndo == <<"N","a","r","u","t","o"," ","S","u","b"," ","I","n","d","o">>

Element(name, classes, text) == [name |-> name, classes |-> classes, text |-> text]

\* headings with a text and without, elements of the classes entry-title and
\* post-title, page titles with a text and with blanks only, a plain element
ElementPool ==
    { Element("h1", {}, X_NarutoSubIndo),
      Element("h1", {}, <<>>),
      Element("div", {"entry-title"}, T_Bleach),
      Element("h2", {"post-title"}, T_NarutoShippuden),
      Element("title", {}, T_BorutoNarutoNext),
      Element("title", {}, <<" ", " ">>),
      Element("div", {}, T_NarutoMovie2024) }

InitTitle ==
    /\ cache = <<>>
    /\ anime_data = <<>>
    /\ log = <<>>
    /\ pc = "call"
    /\ args \in [soup : SeqUpTo(ElementPool, MaxElems)]
    /\ ret = None

call_detail_title ==
    /\ pc = "call"
    /\ ret' = detail_title(args.soup, 1)
    /\ pc' = "return"
    /\ UNCHANGED <<cache, anime_data, log, args>>

SpecTitle == InitTitle /\ [][call_detail_title]_vars

\* the text the selector yields on the page: the trimmed text of the first
\* element with the tag name (h1, title) or with the class (.entry-title,
\* .post-title); empty when no element matches
YieldedText(soup, selector) ==
    LET Matches(e) ==
            CASE selector = "h1" -> e.name = "h1"
              [] selector = "title" -> e.name = "title"
              [] selector = ".entry-title" -> "entry-title" \in e.classes
              [] selector = ".post-title" -> "post-title" \in e.classes
        F == {i \in DOMAIN soup : Matches(soup[i])}
    IN  IF F = {} THEN <<>>
        ELSE Strip(soup[CHOOSE i \in F : \A j \in F : i <= j].text)

\* C10: the title of scrape_anime_details is taken from the first selector, in
\* the order h1, .entry-title, .post-title, title, that yields a non-empty text
\* (a selector whose element has an empty text is skipped), then passed through
\* clean_title; it is "Unknown Title" only when no selector yields a non-empty
\* text.
C10_TitleFromFirstNonEmptySelector ==
    pc = "return" =>
        LET order == <<"h1", ".entry-title", ".post-title", "title">>
            S == {k \in DOMAIN order : YieldedText(args.soup, order[k]) # <<>>}
        IN  IF S = {} THEN ret = UnknownTitle
            ELSE ret = clean_title(
                           YieldedText(args.soup, order[CHOOSE k \in S : \A j \in S : k <= j]))

\* where the code and the claim agree: a page whose first h1 has a text
C10_HeadingWithTextIsCleaned ==
    (pc = "return" /\ YieldedText(args.soup, "h1") # <<>>) =>
        ret = clean_title(YieldedText(args.soup, "h1"))

(***************************************************************************)
(* extract_anime_links                                                     *)
(***************************************************************************)
MaxLinks == 3

K_sub_indo == <<"s","u","b","-","i","n","d","o">>

K_subtitle_indonesia == <<"s","u","b","t","i","t","l","e","-","i","n","d","o","n","e","s","i","a">>

\* 'meownime.ltd'
K_domain == <<"m","e","o","w","n","i","m","e",".","l","t","d">>

\* ['facebook', 'faq', 'genre', 'jadwal', 'anime-list']
skip_keywords ==
    << <<"f","a","c","e","b","o","o","k">>,
       <<"f","a","q">>,
       <<"g","e","n","r","e">>,
       <<"j","a","d","w","a","l">>,
       <<"a","n","i","m","e","-","l","i","s","t">> >>

IsAnimeLinkAnyDomain(href, title) ==
    /\ Contains(Lower(href), K_sub_indo) \/ Contains(Lower(href), K_subtitle_indonesia)
    /\ title # <<>> /\ Len(title) > 3
    /\ ~ContainsAny(Lower(href), skip_keywords)

\* the condition of the loop of extract_anime_links: the path and the skip
\* keywords are looked up in href.lower(), the domain in href itself
is_anime_link(href, title) ==
    /\ Contains(Lower(href), K_sub_indo) \/ Contains(Lower(href), K_subtitle_indonesia)
    /\ title # <<>> /\ Len(title) > 3
    /\ Contains(href, K_domain)
    /\ ~ContainsAny(Lower(href), skip_keywords)

\* the loop over soup.find_all('a', href=True), with its local anime_list
RECURSIVE extract_anime_links_loop(_, _)
extract_anime_links_loop(links, anime_list) ==
    IF links = <<>> THEN anime_list
    ELSE LET href == Head(links).href
             title == get_text(Head(links))
         IN  IF is_anime_link(href, title) /\ Strip(title) # <<>> /\ Len(Strip(title)) > 2
             THEN extract_anime_links_loop(Tail(links),
                      Append(anime_list, Anime(Strip(title), href)))
             ELSE extract_anime_links_loop(Tail(links), anime_list)

extract_anime_links(soup) == extract_anime_links_loop(soup, <<>>)

L_subtitle == <<"h","t","t","p","s",":","/","/","m","e","o","w","n","i","m","e",".","l","t","d","/","n","a","r","u","t","o","-","s","u","b","t","i","t","l","e","-","i","n","d","o","n","e","s","i","a","/">>

L_SUB_INDO == <<"h","t","t","p","s",":","/","/","m","e","o","w","n","i","m","e",".","l","t","d","/","n","a","r","u","t","o","-","S","U","B","-","I","N","D","O","/">>

L_DOMAIN == <<"h","t","t","p","s",":","/","/","M","E","O","W","N","I","M","E",".","L","T","D","/","n","a","r","u","t","o","-","s","u","b","-","i","n","d","o","/">>

L_elsewhere == <<"h","t","t","p","s",":","/","/","e","x","a","m","p","l","e",".","c","o","m","/","n","a","r","u","t","o","-","s","u","b","-","i","n","d","o","/">>

L_nopath == <<"h","t","t","p","s",":","/","/","m","e","o","w","n","i","m","e",".","l","t","d","/","n","a","r","u","t","o","/">>

L_facebook == <<"h","t","t","p","s",":","/","/","f","a","c","e","b","o","o","k",".","c","o","m","/","m","e","o","w","n","i","m","e",".","l","t","d","/","s","u","b","-","i","n","d","o","/">>

L_FAQ == <<"h","t","t","p","s",":","/","/","m","e","o","w","n","i","m","e",".","l","t","d","/","F","A","Q","-","s","u","b","-","i","n","d","o","/">>

L_genre == <<"h","t","t","p","s",":","/","/","m","e","o","w","n","i","m","e",".","l","t","d","/","g","e","n","r","e","/","i","s","e","k","a","i","-","s","u","b","-","i","n","d","o","/">>

L_jadwal == <<"h","t","t","p","s",":","/","/","m","e","o","w","n","i","m","e",".","l","t","d","/","j","a","d","w","a","l","-","s","u","b","-","i","n","d","o","/">>

L_anime_list == <<"h","t","t","p","s",":","/","/","m","e","o","w","n","i","m","e",".","l","t","d","/","a","n","i","m","e","-","l","i","s","t","-","s","u","b","-","i","n","d","o","/">>

X_Naru == <<"N","a","r","u">>

X_Nar_padded == <<" ","N","a","r"," ">>

X_Naruto_padded == <<" "," ","N","a","r","u","t","o"," ">>

\* anchors of each sort: an entry page under three texts (one of them of three
\* characters once trimmed), the second path segment, the path and the domain
\* in upper case, another domain, no path segment, and every skip keyword
LinkPool ==
    { Anchor(EntryUrl(S_naruto), T_Naruto),
      Anchor(EntryUrl(S_naruto), X_Naruto_padded),
      Anchor(EntryUrl(S_naruto), X_Nar_padded),
      Anchor(EntryUrl(S_bleach), X_Naru),
      Anchor(L_subtitle, T_Bleach),
      Anchor(L_SUB_INDO, T_Naruto),
      Anchor(L_DOMAIN, T_Naruto),
      Anchor(L_elsewhere, T_Naruto),
      Anchor(L_nopath, T_Naruto),
      Anchor(L_facebook, T_Naruto),
      Anchor(L_FAQ, T_Naruto),
      Anchor(L_genre, T_Naruto),
      Anchor(L_jadwal, T_Naruto),
      Anchor(L_anime_list, T_Naruto) }

InitExtract ==
    /\ cache = <<>>
    /\ anime_data = <<>>
    /\ log = <<>>
    /\ pc = "call"
    /\ \E n \in 0..MaxLinks : \E l \in [1..n -> LinkPool] : args = [soup |-> l]
    /\ ret = None

call_extract_anime_links ==
    /\ pc = "call"
    /\ ret' = extract_anime_links(args.soup)
    /\ pc' = "return"
    /\ UNCHANGED <<cache, anime_data, log, args>>

SpecExtract == InitExtract /\ [][call_extract_anime_links]_vars

\* the records of the anchors of soup at the positions in I, in document order
RecordsAt(soup, I) ==
    LET kept == Pick(soup, I)
    IN  [k \in 1..Len(kept) |-> Anime(Strip(kept[k].text), kept[k].href)]

\* C11 as stated, "contains" read as the substring test on the href: the
\* output is, in document order and with repetitions, the record (trimmed
\* text, href) of exactly the anchors whose href contains sub-indo or
\* subtitle-indonesia, whose title is longer than 3, whose href contains
\* meownime.ltd and whose href contains none of the skip keywords.
C11_AcceptedIffHrefContains ==
    pc = "return" =>
        ret = RecordsAt(args.soup,
                {i \in DOMAIN args.soup :
                    LET href == args.soup[i].href
                    IN  /\ Contains(href, K_sub_indo) \/ Contains(href, K_subtitle_indonesia)
                        /\ Len(Strip(args.soup[i].text)) > 3
                        /\ Contains(href, K_domain)
                        /\ \A k \in DOMAIN skip_keywords : ~Contains(href, skip_keywords[k])})

\* C11 amended: the same, with the path segment and the skip keywords looked
\* up without regard to case (in the lowercased href) and the domain looked up
\* in the href as written.
C11_AcceptedIffHrefContainsFolded ==
    pc = "return" =>
        ret = RecordsAt(args.soup,
                {i \in DOMAIN args.soup :
                    LET href == args.soup[i].href
                        folded == Lower(href)
                    IN  /\ Contains(folded, K_sub_indo) \/ Contains(folded, K_subtitle_indonesia)
                        /\ Len(Strip(args.soup[i].text)) > 3
                        /\ Contains(href, K_domain)
                        /\ \A k \in DOMAIN skip_keywords : ~Contains(folded, skip_keywords[k])})

\* the same accepted anchor twice around a rejected one: both are returned
C11_Witness ==
    /\ pc = "return"
    /\ Len(args.soup) = 3
    /\ args.soup[1] = args.soup[3]
    /\ args.soup[2].href = L_DOMAIN
    /\ Len(ret) = 2
    /\ ret[1] = ret[2]

\* an anchor whose path segment is in upper case is returned
C11_WitnessFolded ==
    /\ pc = "return"
    /\ args.soup = <<Anchor(L_SUB_INDO, T_Naruto)>>
    /\ ret = <<Anime(T_Naruto, L_SUB_INDO)>>

(***************************************************************************)
(* The scraper instance: its methods over the fetcher and the cache        *)
(***************************************************************************)
MaxOps == 2

\* a response body, given by the nodes html.parser finds in it: the elements
\* the title is looked up in, the paragraphs, the anchors
Html(elements, paragraphs, anchors) ==
    [elements |-> elements, paragraphs |-> paragraphs, anchors |-> anchors]

\* the body ''
EmptyText == [empty |-> TRUE]

\* None, where the other values are records
Nothing == [none |-> TRUE]

\* self.base_url
BaseUrl == "https://meownime.ltd"

\* f"{self.base_url}/anime-list-baru"
ListUrl == "https://meownime.ltd/anime-list-baru"

\* a RequestException raised by session.get or by raise_for_status
Failure == [ok |-> FALSE]

\* a response with a status that raise_for_status lets through
Success(text) == [ok |-> TRUE, text |-> text]

PageOfStoringFailure(c, url, response) ==
    IF url \in DOMAIN c THEN [html |-> c[url], cache |-> c, net |-> FALSE]
    ELSE IF response.ok
         THEN [html |-> response.text, cache |-> Store(c, url, response.text),
               net |-> TRUE]
         ELSE [html |-> Nothing, cache |-> Store(c, url, EmptyText), net |-> TRUE]

\* self.get_page(url) as the methods call it (use_cache=True) on the cache c,
\* given what the transport answers if asked: the value returned, the cache
\* afterwards, whether the transport was asked
page_of(c, url, response) ==
    IF url \in DOMAIN c THEN [html |-> c[url], cache |-> c, net |-> FALSE]
    ELSE IF response.ok
         THEN [html |-> response.text, cache |-> Store(c, url, response.text),
               net |-> TRUE]
         ELSE [html |-> Nothing, cache |-> c, net |-> TRUE]

\* not html
falsy(html) == html = Nothing \/ html = EmptyText

HomeLimit == 20

\* {"ongoing": [], "completed": [], "movies": []}
EmptyBuckets == [c \in Categories |-> <<>>]

HomePageOfCutFirst(soup) ==
    categorize_anime(remove_duplicates(Take(extract_anime_links(soup), HomeLimit)))

\* scrape_home_page from the parsed page on: extract, deduplicate, categorize,
\* cut every bucket
home_page_of(soup) ==
    LET anime_list == remove_duplicates(extract_anime_links(soup))
        categorized_data == categorize_anime(anime_list)
    IN  [c \in Categories |-> Take(categorized_data[c], HomeLimit)]

\* scrape_home_page, given what self.get_page(self.base_url) returned
scrape_home_page(html) ==
    IF falsy(html) THEN EmptyBuckets ELSE home_page_of(html.anchors)

\* scrape_anime_list, given what self.get_page(url) returned
scrape_anime_list(html, letter) ==
    IF falsy(html) THEN <<>>
    ELSE anime_list_of(extract_anime_links(html.anchors), letter)

DigitChars == {"0","1","2","3","4","5","6","7","8","9"}

\* the characters \w matches
IsWordChar(c) ==
    c \in DigitChars \cup Range(UpperChars) \cup Range(LowerChars) \cup {"_"}

\* soup.get_text(): the text nodes of the page, joined with nothing between
RECURSIVE text_of(_)
text_of(nodes) ==
    IF nodes = <<>> THEN <<>> ELSE Head(nodes).text \o text_of(Tail(nodes))

\* re.search(r'\b(19|20)\d{2}\b', text_content): the first match, <<>> for none
year_match(text_content) ==
    LET M == {i \in 1..(Len(text_content) - 3) :
                /\ <<text_content[i], text_content[i + 1]>> \in {<<"1","9">>, <<"2","0">>}
                /\ text_content[i + 2] \in DigitChars
                /\ text_content[i + 3] \in DigitChars
                /\ i = 1 \/ ~IsWordChar(text_content[i - 1])
                /\ i + 3 = Len(text_content) \/ ~IsWordChar(text_content[i + 4])}
    IN  IF M = {} THEN <<>>
        ELSE LET i == CHOOSE i \in M : \A j \in M : i <= j
             IN  SubSeq(text_content, i, i + 3)

\* extract_metadata on a page without genre or tag markup: no selector of
\* genre_selectors finds an element, the year is the first match in the text
\* (<<>> for None)
extract_metadata(html) ==
    [genre |-> <<>>,
     year |-> year_match(text_of(html.elements) \o text_of(html.paragraphs)
                            \o text_of(html.anchors)),
     status |-> None,
     episodes |-> None]

\* scrape_anime_details, given what self.get_page(anime_url) returned
scrape_anime_details(html, anime_url) ==
    IF falsy(html) THEN Nothing
    ELSE [title |-> detail_title(html.elements, 1),
          synopsis |-> extract_synopsis(html.paragraphs),
          download_links |-> extract_download_links(html.anchors),
          metadata |-> extract_metadata(html),
          url |-> anime_url]

\* the entry page of Naruto: a heading, a paragraph, two entries of the site
\* and a download link
NarutoPage ==
    Html(<<Element("h1", {}, X_NarutoSubIndo)>>,
         Page(<<"good">>, <<{"entry-content"}>>),
         <<Anchor(EntryUrl(S_shippuden), T_NarutoShippuden),
           Anchor(EntryUrl(S_naruto), T_Naruto),
           Anchor(H_mega, X_Download)>>)

\* a page of three entries, one of them a film of 2024
ListPage ==
    Html(<<Element("title", {}, T_Bleach)>>,
         <<>>,
         <<Anchor(EntryUrl(S_naruto), T_Naruto),
           Anchor(EntryUrl(S_bleach), T_Bleach),
           Anchor(EntryUrl(S_narutoMovie), T_NarutoMovie2024)>>)

PageBodies == {EmptyText, NarutoPage, ListPage}

\* what the transport can answer
Responses == {Failure} \cup {Success(text) : text \in PageBodies}

\* "https://meownime.ltd/naruto-sub-indo/"
NarutoUrl == "https://meownime.ltd/naruto-sub-indo/"

\* urls asked for details: an entry page, and the home page itself
DetailUrls == {NarutoUrl, BaseUrl}

Letters == {<<>>, <<"n">>, <<"B">>}

InstanceQueries == {<<>>, Q_blank, <<"\t", " ">>, Q_naruto}

\* a method called as call returns value after its self.get_page(url) gave
\* page (see page_of); log records the get_page call
Returned(call, url, page, value) ==
    /\ pc = "ready"
    /\ Len(log) < MaxOps
    /\ cache' = page.cache
    /\ log' = Append(log, [url |-> url, net |-> page.net,
                           failed |-> page.net /\ page.html = Nothing,
                           html |-> page.html, before |-> cache])
    /\ args' = call
    /\ ret' = value
    /\ UNCHANGED <<anime_data, pc>>

do_scrape_home_page ==
    \E response \in Responses :
        LET page == page_of(cache, BaseUrl, response)
        IN  Returned([method |-> "scrape_home_page"], BaseUrl, page,
                     scrape_home_page(page.html))

do_scrape_anime_list ==
    \E letter \in Letters, response \in Responses :
        LET page == page_of(cache, ListUrl, response)
        IN  Returned([method |-> "scrape_anime_list", letter |-> letter], ListUrl,
                     page, scrape_anime_list(page.html, letter))

do_scrape_anime_details ==
    \E anime_url \in DetailUrls, response \in Responses :
        LET page == page_of(cache, anime_url, response)
        IN  Returned([method |-> "scrape_anime_details", anime_url |-> anime_url],
                     anime_url, page, scrape_anime_details(page.html, anime_url))

\* search_anime: all_anime = self.scrape_anime_list() comes first
do_search_anime ==
    \E query \in InstanceQueries, response \in Responses :
        LET page == page_of(cache, ListUrl, response)
        IN  Returned([method |-> "search_anime", query |-> query], ListUrl, page,
                     search_anime(scrape_anime_list(page.html, <<>>), query))

InitScraper ==
    /\ cache = <<>>
    /\ anime_data = <<>>
    /\ log = <<>>
    /\ pc = "ready"
    /\ args = [method |-> "__init__"]
    /\ ret = Nothing

NextScraper ==
    \/ do_scrape_home_page
    \/ do_scrape_anime_list
    \/ do_scrape_anime_details
    \/ do_search_anime

SpecScraper == InitScraper /\ [][NextScraper]_vars

\* the get_page call of the method that ran last
LastCall == log[Len(log)]

\* the value each method returns for a page it could not get
EmptyValue ==
    [m \in {"scrape_home_page", "scrape_anime_list", "scrape_anime_details",
            "search_anime"} |->
        CASE m = "scrape_home_page" -> [c \in {"ongoing", "completed", "movies"} |-> <<>>]
          [] m = "scrape_anime_details" -> Nothing
          [] OTHER -> <<>>]

\* C12: when the fetch of the page a method asks for fails, get_page returns
\* None and leaves the cache as it was, and the method returns its empty value:
\* three empty buckets for scrape_home_page, [] for scrape_anime_list and for
\* search_anime, None for scrape_anime_details.
C12_FailedFetchDegrades ==
    (log # <<>> /\ LastCall.failed) =>
        /\ LastCall.html = Nothing
        /\ cache = LastCall.before
        /\ ret = EmptyValue[args.method]

\* a fetch fails on an instance whose cache holds another page
C12_Witness ==
    /\ Len(log) = 2
    /\ LastCall.failed
    /\ DOMAIN cache = {log[1].url}
    /\ args.method = "scrape_anime_details"
    /\ ret = Nothing

(***************************************************************************)
(* The HTTP API of src/app.py over one scraper instance                    *)
(***************************************************************************)
MaxRequests == 2

\* an exception that is not a RequestException leaving session.get: get_page
\* does not catch it
Unexpected == [ok |-> FALSE, unexpected |-> TRUE]

ApiPageBodies == {EmptyText, NarutoPage}

ApiResponses ==
    {Failure, Unexpected} \cup {Success(text) : text \in ApiPageBodies}

\* request.args.get(name, default): request.args maps the names of the
\* parameters given to their values
get(request_args, name, default) ==
    IF name \in DOMAIN request_args THEN request_args[name] ELSE default

\* jsonify(body), status: the value is carried as it is
Response(status, body) == [status |-> status, body |-> body]

HandleApiErrorNever(raised, response) == response

\* the wrapper of handle_api_error around a handler that raised or returned
handle_api_error(raised, response) ==
    IF raised THEN Response(500, [error |-> "An error occurred"]) ELSE response

\* self.get_page(url) inside a handler: the page (see page_of), and whether an
\* exception leaves get_page
api_page(c, url, response) ==
    [page |-> page_of(c, url, response),
     raised |-> url \notin DOMAIN c /\ response = Unexpected,
     get |-> [url |-> url, net |-> url \notin DOMAIN c,
              failed |-> url \notin DOMAIN c /\ response = Failure,
              raised |-> url \notin DOMAIN c /\ response = Unexpected,
              html |-> page_of(c, url, response).html]]

\* a request is answered: the instance's cache, the get_page calls made for
\* the request, the request and the response
Answered(route, request_args, c, gets, response) ==
    /\ pc = "serving"
    /\ Len(log) < MaxRequests
    /\ cache' = c
    /\ log' = Append(log, [gets |-> gets, before |-> cache])
    /\ args' = [route |-> route, args |-> request_args]
    /\ ret' = response
    /\ UNCHANGED <<anime_data, pc>>

api_home ==
    \E response \in ApiResponses :
        LET p == api_page(cache, BaseUrl, response)
        IN  Answered("/api/home", <<>>, p.page.cache, <<p.get>>,
                handle_api_error(p.raised,
                    Response(200, scrape_home_page(p.page.html))))

api_anime_list ==
    \E request_args \in {<<>>, [letter |-> <<"n">>]}, response \in ApiResponses :
        LET letter == get(request_args, "letter", <<>>)
            p == api_page(cache, ListUrl, response)
        IN  Answered("/api/anime-list", request_args, p.page.cache, <<p.get>>,
                handle_api_error(p.raised,
                    Response(200, scrape_anime_list(p.page.html, letter))))

api_anime_details ==
    \E request_args \in {<<>>, [url |-> ""], [url |-> NarutoUrl]},
       response \in ApiResponses :
        LET url == get(request_args, "url", None)
        IN  IF url = None \/ url = ""
            THEN Answered("/api/anime-details", request_args, cache, <<>>,
                     Response(400, [error |-> "URL parameter required"]))
            ELSE LET p == api_page(cache, url, response)
                     data == scrape_anime_details(p.page.html, url)
                 IN  Answered("/api/anime-details", request_args, p.page.cache,
                         <<p.get>>,
                         handle_api_error(p.raised,
                             IF data # Nothing THEN Response(200, data)
                             ELSE Response(404,
                                      [error |-> "Failed to fetch anime details"])))

api_search ==
    \E request_args \in {<<>>, [q |-> <<>>], [q |-> Q_blank], [q |-> Q_naruto]},
       response \in ApiResponses :
        LET query == get(request_args, "q", <<>>)
        IN  IF query = <<>>
            THEN Answered("/api/search", request_args, cache, <<>>,
                     Response(400, [error |-> "Query parameter 'q' required"]))
            ELSE LET p == api_page(cache, ListUrl, response)
                 IN  Answered("/api/search", request_args, p.page.cache, <<p.get>>,
                         handle_api_error(p.raised,
                             Response(200,
                                 search_anime(scrape_anime_list(p.page.html, <<>>),
                                              query))))

\* get_statistics, given what the two get_page calls returned and the cache
\* after them
get_statistics(home_html, list_html, c) ==
    LET home_data == scrape_home_page(home_html)
        all_anime == scrape_anime_list(list_html, <<>>)
    IN  [total_anime |-> Len(all_anime),
         ongoing_count |-> Len(home_data["ongoing"]),
         completed_count |-> Len(home_data["completed"]),
         movies_count |-> Len(home_data["movies"]),
         cache_size |-> Cardinality(DOMAIN c)]

api_statistics ==
    \E home_response \in ApiResponses, list_response \in ApiResponses :
        LET h == api_page(cache, BaseUrl, home_response)
            l == api_page(h.page.cache, ListUrl, list_response)
        IN  IF h.raised
            THEN Answered("/api/statistics", <<>>, cache, <<h.get>>,
                     handle_api_error(TRUE, Nothing))
            ELSE Answered("/api/statistics", <<>>,
                     IF l.raised THEN h.page.cache ELSE l.page.cache,
                     <<h.get, l.get>>,
                     handle_api_error(l.raised,
                         Response(200, get_statistics(h.page.html, l.page.html,
                                                      l.page.cache))))

InitApi ==
    /\ cache = <<>>
    /\ anime_data = <<>>
    /\ log = <<>>
    /\ pc = "serving"
    /\ args = <<>>
    /\ ret = Nothing

NextApi ==
    \/ api_home
    \/ api_anime_list
    \/ api_anime_details
    \/ api_search
    \/ api_statistics

SpecApi == InitApi /\ [][NextApi]_vars

\* the record of the request answered last
LastRequest == log[Len(log)]

\* the page the last request asked get_page for
LastPage == LastRequest.gets[1]

\* an exception was raised while the last request was handled
Raised == \E k \in DOMAIN LastRequest.gets : LastRequest.gets[k].raised

\* the last request gave a value that is not empty for the parameter name
Given(name, empty) == name \in DOMAIN args.args /\ args.args[name] # empty

IsDetailRecord(body, url) ==
    /\ DOMAIN body = {"title", "synopsis", "download_links", "metadata", "url"}
    /\ body.url = url

\* what C13 says of /api/search and of exceptions: 400 and no fetch when q is
\* missing or empty, 200 otherwise; 500 with an error body when an exception
\* is raised in a handler
SearchAndErrorStatus ==
    /\ Raised => (ret.status = 500 /\ DOMAIN ret.body = {"error"})
    /\ args.route = "/api/search" =>
          /\ ~Given("q", <<>>) => (ret.status = 400 /\ LastRequest.gets = <<>>)
          /\ (Given("q", <<>>) /\ ~Raised) => ret.status = 200

\* C13 as stated: /api/anime-details answers 400 without a fetch when url is
\* missing or empty, 404 when the fetch fails and 200 with the detail record
\* otherwise; /api/search answers 400 without a fetch when q is missing or
\* empty and 200 otherwise; an exception in a handler gives 500 with an error
\* body.
C13_DetailsNotFoundIffFetchFails ==
    log # <<>> =>
        /\ SearchAndErrorStatus
        /\ args.route = "/api/anime-details" =>
              /\ ~Given("url", "") => (ret.status = 400 /\ LastRequest.gets = <<>>)
              /\ (Given("url", "") /\ LastPage.failed) => ret.status = 404
              /\ (Given("url", "") /\ ~LastPage.failed /\ ~Raised) =>
                    (ret.status = 200 /\ IsDetailRecord(ret.body, args.args.url))

\* C13 amended: the same, with 404 when the fetch fails or the body of the
\* page, fetched or cached, is empty.
C13_DetailsNotFoundIffNoBody ==
    log # <<>> =>
        /\ SearchAndErrorStatus
        /\ args.route = "/api/anime-details" =>
              /\ ~Given("url", "") => (ret.status = 400 /\ LastRequest.gets = <<>>)
              /\ (Given("url", "") /\ (LastPage.failed \/ LastPage.html = EmptyText)) =>
                    ret.status = 404
              /\ (Given("url", "") /\ ~LastPage.failed /\ LastPage.html # EmptyText
                    /\ ~Raised) =>
                    (ret.status = 200 /\ IsDetailRecord(ret.body, args.args.url))

\* the details of a page are served with 200 after a request for them failed
C13_Witness ==
    /\ Len(log) = 2
    /\ log[1].gets # <<>> /\ log[1].gets[1].failed
    /\ args.route = "/api/anime-details"
    /\ ret.status = 200
    /\ ret.body.title = T_Naruto

\* a page with an empty body is answered with 404
C13_WitnessEmptyBody ==
    /\ log # <<>>
    /\ args.route = "/api/anime-details"
    /\ LastRequest.gets # <<>>
    /\ LastPage.html = EmptyText
    /\ ret.status = 404

\* an exception in a handler is answered with 500
C13_WitnessError ==
    /\ log # <<>>
    /\ args.route = "/api/search"
    /\ Raised
    /\ ret.status = 500

\* C14: search_anime with an empty or whitespace-only query returns [],
\* whatever the anime list page holds and whether the page was fetched, was
\* served from the cache or could not be fetched.
C14_BlankQueryFindsNothing ==
    (log # <<>> /\ args.method = "search_anime" /\ Strip(args.query) = <<>>) =>
        ret = <<>>

\* a query of blanks on a list page, fetched for this search, with a title
\* that contains a blank
C14_Witness ==
    /\ log # <<>>
    /\ args.method = "search_anime"
    /\ args.query = Q_blank
    /\ LastCall.net /\ ~LastCall.failed
    /\ LastCall.html = NarutoPage
    /\ ret = <<>>

\* the same query when the list page cannot be fetched
C14_WitnessFailure ==
    /\ log # <<>>
    /\ args.method = "search_anime"
    /\ args.query = Q_blank
    /\ LastCall.failed
    /\ ret = <<>>

(***************************************************************************)
(* scrape_home_page on the pages the home url can serve                    *)
(***************************************************************************)
MaxHomeLinks == 2

\* anchors of the home page: an entry, the same title in upper case and
\* blank-padded, a film of 2024, a second season, an anchor to a genre page
HomeLinkPool ==
    { Anchor(EntryUrl(S_naruto), T_Naruto),
      Anchor(EntryUrl(S_naruto2), T_NARUTO),
      Anchor(EntryUrl(S_naruto), X_Naruto_padded),
      Anchor(EntryUrl(S_narutoMovie), T_NarutoMovie2024),
      Anchor(EntryUrl(S_shippuden), T_NarutoSeason2),
      Anchor(L_genre, T_Bleach) }

\* HomeLimit + 1 further entries with pairwise different titles "Narux...",
\* all of them of the bucket completed
HomeFiller ==
    [i \in 1..(HomeLimit + 1) |->
        Anchor(EntryUrl(S_naruto \o Rep("x", i)), <<"N","a","r","u">> \o Rep("x", i))]

\* get_page returned the body of a home page, the empty body or None
InitHome ==
    /\ cache = <<>>
    /\ anime_data = <<>>
    /\ log = <<>>
    /\ pc = "call"
    /\ \/ args \in [html : {Nothing, EmptyText}]
       \/ \E n \in 0..MaxHomeLinks : \E l \in [1..n -> HomeLinkPool] :
            \E before \in {<<>>, HomeFiller}, after \in {<<>>, HomeFiller} :
                args = [html |-> Html(<<>>, <<>>, before \o l \o after)]
    /\ ret = None

call_scrape_home_page ==
    /\ pc = "call"
    /\ ret' = scrape_home_page(args.html)
    /\ pc' = "return"
    /\ UNCHANGED <<cache, anime_data, log, args>>

SpecHome == InitHome /\ [][call_scrape_home_page]_vars

\* s is the sequence of the first Len(s) elements of t
IsPrefix(s, t) == Len(s) <= Len(t) /\ s = SubSeq(t, 1, Len(s))

\* C15: every bucket scrape_home_page returns holds at most 20 records, is the
\* prefix (cut at 20) of the same bucket of categorize_anime applied to the
\* deduplicated list of the extracted links, and no key title.lower().strip()
\* occurs twice in the three buckets together.
C15_BucketsAreCutPrefixesWithoutDuplicates ==
    (pc = "return" /\ ~falsy(args.html)) =>
        LET unique == remove_duplicates(extract_anime_links(args.html.anchors))
            buckets == categorize_anime(unique)
            returned == ret["ongoing"] \o ret["completed"] \o ret["movies"]
        IN  /\ \A c \in {"ongoing", "completed", "movies"} :
                  /\ Len(ret[c]) <= 20
                  /\ IsPrefix(ret[c], buckets[c])
                  /\ Len(buckets[c]) > 20 => Len(ret[c]) = 20
            /\ \A i, j \in DOMAIN returned :
                  i < j => Strip(Lower(returned[i].title)) # Strip(Lower(returned[j].title))

\* a page of two entries whose titles differ by case only, followed by more
\* than 20 entries of the same bucket: the bucket holds the first of the two
\* and the 19 entries after them
C15_Witness ==
    /\ pc = "return"
    /\ ~falsy(args.html)
    /\ Len(args.html.anchors) = HomeLimit + 3
    /\ args.html.anchors[1].text = T_NARUTO
    /\ args.html.anchors[2].text = T_Naruto
    /\ Len(ret["completed"]) = 20
    /\ ret["completed"][1].title = T_NARUTO
    /\ ret["completed"][20] = Anime(HomeFiller[19].text, HomeFiller[19].href)
    /\ ret["movies"] = <<>>

(***************************************************************************)
(* The terminal scraper of src/anime_scraper.py: it fetches without a      *)
(* cache and keeps its results in self.anime_data                          *)
(***************************************************************************)
MaxTerminalOps == 2

TerminalSearchLimit == 20

TerminalHomeLimit == 15

\* '/sub-indo/'
K_sub_indo_dir == <<"/","s","u","b","-","i","n","d","o","/">>

\* ['season', 'part', 'episode']
terminal_ongoing_keywords ==
    << <<"s","e","a","s","o","n">>, <<"p","a","r","t">>,
       <<"e","p","i","s","o","d","e">> >>

\* get_page of the terminal scraper: the body, None for a RequestException
terminal_get_page(response) == IF response.ok THEN response.text ELSE Nothing

\* the records of the anchors with '/sub-indo/' in href and a title of more
\* than 3 characters, in document order
RECURSIVE terminal_links(_)
terminal_links(links) ==
    IF links = <<>> THEN <<>>
    ELSE LET href == Head(links).href
             title == get_text(Head(links))
         IN  (IF Contains(href, K_sub_indo_dir) /\ title # <<>> /\ Len(title) > 3
              THEN <<Anime(title, href)>> ELSE <<>>)
                \o terminal_links(Tail(links))

\* the first record of each title, titles compared as written
RECURSIVE terminal_unique(_, _, _)
terminal_unique(anime_list, seen, unique_anime) ==
    IF anime_list = <<>> THEN unique_anime
    ELSE LET anime == Head(anime_list)
         IN  IF anime.title \notin seen
             THEN terminal_unique(Tail(anime_list), seen \cup {anime.title},
                                  Append(unique_anime, anime))
             ELSE terminal_unique(Tail(anime_list), seen, unique_anime)

\* sorted(unique_anime, key=lambda x: x['title']); sorted is stable
RECURSIVE terminal_sorted(_)
terminal_sorted(anime_list) ==
    IF anime_list = <<>> THEN <<>>
    ELSE LET sorted == terminal_sorted(SubSeq(anime_list, 1, Len(anime_list) - 1))
             x == anime_list[Len(anime_list)]
             k == Cardinality({i \in DOMAIN sorted :
                      ~StrLess(x.title, sorted[i].title)})
         IN  SubSeq(sorted, 1, k) \o <<x>> \o SubSeq(sorted, k + 1, Len(sorted))

\* scrape_anime_list of the terminal scraper from the parsed page on; every
\* title starts with '', so that <<>> stands for the letters None and ''
terminal_list_of(soup, letter) ==
    LET anime_list == SelectSeq(terminal_links(soup),
                          LAMBDA a : StartsWith(Lower(a.title), Lower(letter)))
    IN  terminal_sorted(terminal_unique(anime_list, {}, <<>>))

\* the bucket scrape_home_page of the terminal scraper puts a record in
terminal_category(anime) ==
    IF Contains(Lower(anime.url), K_movie) \/ Contains(Lower(anime.url), K_film)
    THEN "movies"
    ELSE IF ContainsAny(Lower(anime.title), terminal_ongoing_keywords)
         THEN "ongoing"
         ELSE "completed"

\* scrape_home_page of the terminal scraper from the parsed page on
terminal_home_of(soup) ==
    [c \in Categories |->
        Take(terminal_unique(SelectSeq(terminal_links(soup),
                                 LAMBDA a : terminal_category(a) = c), {}, <<>>),
             TerminalHomeLimit)]

\* search_anime of the terminal scraper, given self.anime_data.get('list', [])
terminal_search(all_anime, query) ==
    LET query_lower == Lower(query)
    IN  Take(SelectSeq(all_anime, LAMBDA a : Contains(Lower(a.title), query_lower)),
             TerminalSearchLimit)

L_t_naruto == <<"h","t","t","p","s",":","/","/","m","e","o","w","n","i","m","e",".","l","t","d","/","s","u","b","-","i","n","d","o","/","n","a","r","u","t","o","/">>

L_t_bleach == <<"h","t","t","p","s",":","/","/","m","e","o","w","n","i","m","e",".","l","t","d","/","s","u","b","-","i","n","d","o","/","b","l","e","a","c","h","/">>

L_t_boruto == <<"h","t","t","p","s",":","/","/","m","e","o","w","n","i","m","e",".","l","t","d","/","s","u","b","-","i","n","d","o","/","b","o","r","u","t","o","-","n","a","r","u","t","o","-","n","e","x","t","/">>

L_t_film == <<"h","t","t","p","s",":","/","/","m","e","o","w","n","i","m","e",".","l","t","d","/","s","u","b","-","i","n","d","o","/","n","a","r","u","t","o","-","f","i","l","m","/">>

L_t_filler == <<"h","t","t","p","s",":","/","/","m","e","o","w","n","i","m","e",".","l","t","d","/","s","u","b","-","i","n","d","o","/","n","a","r","u">>

\* a list page: three entries, one of them twice, an entry whose path has no
\* /sub-indo/ segment, a film and a second season
TerminalPage ==
    Html(<<>>, <<>>,
         <<Anchor(L_t_naruto, T_Naruto),
           Anchor(L_t_boruto, T_BorutoNarutoNext),
           Anchor(L_t_bleach, T_Bleach),
           Anchor(L_t_naruto, T_Naruto),
           Anchor(EntryUrl(S_shippuden), T_NarutoShippuden),
           Anchor(L_t_film, T_NarutoFilm),
           Anchor(L_t_bleach, T_NarutoSeason2)>>)

\* the same page followed by TerminalSearchLimit + 1 entries "Narux..."
TerminalLongPage ==
    Html(<<>>, <<>>,
         TerminalPage.anchors \o
            [i \in 1..(TerminalSearchLimit + 1) |->
                Anchor(L_t_filler \o Rep("x", i), <<"N","a","r","u">> \o Rep("x", i))])

TerminalResponses ==
    {Failure} \cup {Success(text) : text \in {EmptyText, TerminalPage, TerminalLongPage}}

TerminalLetters == {<<>>, <<"b">>, <<"N">>}

TerminalQueries == {Q_naruto, <<"N","a","r","u">>, <<"B","L">>}

\* a method of the terminal scraper returns: log records the call, the
\* get_page calls made for it and what they returned
TerminalReturn(call, gets, data, value) ==
    /\ pc = "ready"
    /\ Len(log) < MaxTerminalOps
    /\ anime_data' = data
    /\ log' = Append(log, [call |-> call, gets |-> gets])
    /\ args' = call
    /\ ret' = value
    /\ UNCHANGED <<cache, pc>>

terminal_scrape_home_page ==
    \E response \in TerminalResponses :
        LET html == terminal_get_page(response)
            gets == <<[url |-> BaseUrl, html |-> html]>>
            call == [method |-> "scrape_home_page"]
        IN  IF falsy(html)
            THEN TerminalReturn(call, gets, anime_data, EmptyBuckets)
            ELSE LET data == terminal_home_of(html.anchors)
                 IN  TerminalReturn(call, gets, Store(anime_data, "home", data), data)

terminal_scrape_anime_list ==
    \E letter \in TerminalLetters, response \in TerminalResponses :
        LET html == terminal_get_page(response)
            gets == <<[url |-> ListUrl, html |-> html]>>
            call == [method |-> "scrape_anime_list", letter |-> letter]
        IN  IF falsy(html)
            THEN TerminalReturn(call, gets, anime_data, <<>>)
            ELSE LET result == terminal_list_of(html.anchors, letter)
                 IN  TerminalReturn(call, gets, Store(anime_data, "list", result),
                                    result)

\* search_anime: self.scrape_anime_list() runs only if 'list' is not a key of
\* self.anime_data
terminal_search_anime ==
    \E query \in TerminalQueries, response \in TerminalResponses :
        LET loaded == "list" \in DOMAIN anime_data
            html == terminal_get_page(response)
            gets == IF loaded THEN <<>> ELSE <<[url |-> ListUrl, html |-> html]>>
            data == IF loaded \/ falsy(html) THEN anime_data
                    ELSE Store(anime_data, "list", terminal_list_of(html.anchors, <<>>))
            all_anime == IF "list" \in DOMAIN data THEN data["list"] ELSE <<>>
        IN  TerminalReturn([method |-> "search_anime", query |-> query], gets, data,
                           terminal_search(all_anime, query))

InitTerminal ==
    /\ cache = <<>>
    /\ anime_data = <<>>
    /\ log = <<>>
    /\ pc = "ready"
    /\ args = [method |-> "__init__"]
    /\ ret = Nothing

NextTerminal ==
    \/ terminal_scrape_home_page
    \/ terminal_scrape_anime_list
    \/ terminal_search_anime

SpecTerminal == InitTerminal /\ [][NextTerminal]_vars

\* the calls of log for which the anime list page was fetched with a body
ListFetches ==
    {i \in DOMAIN log :
        /\ log[i].gets # <<>>
        /\ log[i].gets[1].url = ListUrl
        /\ ~falsy(log[i].gets[1].html)}

\* the full anime list: every entry of the list page fetched last
FullAnimeList ==
    LET i == CHOOSE i \in ListFetches : \A j \in ListFetches : j <= i
    IN  terminal_list_of(log[i].gets[1].html.anchors, <<>>)

\* C17: in the terminal scraper search_anime(query) returns the records of
\* the full (unfiltered) anime list whose title contains the query, up to 20,
\* whatever ran before it on the instance, scrape_anime_list(letter) included.
C17_SearchFiltersFullList ==
    (log # <<>> /\ args.method = "search_anime" /\ ListFetches # {}) =>
        LET query_lower == Lower(args.query)
        IN  ret = Take(SelectSeq(FullAnimeList,
                           LAMBDA a : Contains(Lower(a.title), query_lower)),
                       20)

====
